---- MODULE Spec2Model ----
(***************************************************************************)
(* Event-Ticketing-System: a state-machine model of the request handlers   *)
(* of the backend (Express controllers over Mongoose models).              *)
(*                                                                         *)
(* The repository holds two generations of the backend side by side:       *)
(*   - the first one books through Booking documents (createBooking, the   *)
(*     mock payment flow createIntent / confirmPayment);                   *)
(*   - the second one books through Ticket documents inside a database     *)
(*     transaction (bookTickets) and verifies tickets at the door          *)
(*     (verifyTicket, scanTicket, verifyByTicketNumber, bulkVerifyTickets).*)
(* Each handler is a process whose atomic steps are the stretches of code  *)
(* between two awaits on the database.  Every subsystem has its own        *)
(* specification over the one set of variables.                            *)
(***************************************************************************)
EXTENDS Integers, Sequences, FiniteSets, TLC

VARIABLES
    bkEvents,   \* Event collection of the first backend: id -> document
    bookings,   \* Booking collection: sequence of documents, _id = index
    cbReq,      \* createBooking requests: slot -> position and response
    payReq,     \* the mock payment request being served and its response
    now,        \* the server clock (new Date()), in hours
    events,     \* Event collection of the second backend: id -> document
    tickets,    \* Ticket collection: sequence of documents, _id = index
    evCommitTs, \* storage engine: number of committed writes of each event document
    evWriter,   \* storage engine: the open transaction that has written each event document
    btReq,      \* bookTickets requests: slot -> position, transaction and response
    vReq,       \* ticket verification requests: slot -> position and response
    users,      \* User collection: email -> document
    authReq,    \* the register / login request being served and its response
    rlStore,    \* the store of qrScanRateLimiter: key -> hits and reset time
    rlReq,      \* the request at the /scan route and what the limiter did with it
    rlClock,    \* the clock of the rate limiter (Date.now()), in minutes
    rlPassed,   \* requester -> requests handed to scanTicket in its current window
    vlog,       \* a VerificationLog document, in memory and as last saved
    logClock,   \* the clock read by the VerificationLog methods, in minutes
    payments,   \* Payment collection: sequence of documents, _id = index
    payOps,     \* payment, refund and cancellation requests: slot -> position and response
    tkWriter    \* storage engine: the open transaction that has written each ticket document

varsBooking == <<bkEvents, bookings, cbReq, payReq>>
varsTickets == <<now, events, tickets, evCommitTs, evWriter, btReq>>
varsVerify == <<vReq>>
varsAuth == <<users, authReq>>
varsRate == <<rlStore, rlReq, rlClock, rlPassed>>
varsLog == <<vlog, logClock>>
varsPay == <<payments, payOps, tkWriter>>
vars == <<bkEvents, bookings, cbReq, payReq, now, events, tickets, evCommitTs,
          evWriter, btReq, vReq, users, authReq, rlStore, rlReq, rlClock, rlPassed,
          vlog, logClock, payments, payOps, tkWriter>>

\* what the handlers of each subsystem leave alone
notBooking == <<varsTickets, varsVerify, varsAuth, varsRate, varsLog, varsPay>>
notTickets == <<varsBooking, varsVerify, varsAuth, varsRate, varsLog, varsPay>>
notVerify == <<varsBooking, varsAuth, varsRate, varsLog, varsPay>>
notAuth == <<varsBooking, varsTickets, varsVerify, varsRate, varsLog, varsPay>>
notRate == <<varsBooking, varsTickets, varsVerify, varsAuth, varsLog, varsPay>>
notLog == <<varsBooking, varsTickets, varsVerify, varsAuth, varsRate, varsPay>>
notPay == <<now, btReq, varsBooking, varsVerify, varsAuth, varsRate, varsLog>>

----------------------------------------------------------------------------
(* Bounds of the model *)

NumBookingReq == 3      \* concurrent createBooking requests
MaxQuantity == 2        \* largest quantity a request asks for
TotalTickets == 2       \* totalTickets of the modelled event
NumTicketReq == 3       \* concurrent bookTickets requests
EventTotalTickets == 3  \* totalTickets of the published event of the second backend

----------------------------------------------------------------------------
(* Shared vocabulary *)

UserIds == {"u1", "u2"}
NoValue == "null"

RECURSIVE SumQuantity(_, _)
\* the sum of the quantity fields of the first i documents of a collection
SumQuantity(s, i) == IF i = 0 THEN 0 ELSE s[i].quantity + SumQuantity(s, i - 1)

----------------------------------------------------------------------------
(* First backend: createBooking                                            *)

BkEventIds == {"e1"}
BkReqEventIds == BkEventIds \cup {"missing"}
BookingReqs == 1..NumBookingReq
TicketPrice == 5

\* req.body.quantity is any JSON number.  The numbers of this backend
\* (quantities, ticket counts, amounts) are held in halves: Unit is the number 1.
Unit == 2

\* the quantities tried: 0 (or none), the whole numbers up to the largest, and 1.5
BookingQuantities == {q * Unit : q \in 0..MaxQuantity} \cup {Unit + Unit \div 2}

\* the request bodies tried: every quantity on the event, one ticket of an
\* event that does not exist
CbInputs ==
    {<<e, q>> \in BkReqEventIds \X BookingQuantities : e \in BkEventIds \/ q = Unit}

\* the authenticated user of a createBooking request (req.user.id)
CbUser(r) == IF r % 2 = 1 THEN "u1" ELSE "u2"

\* if (!eventId || !quantity || quantity < 1) -> 400 Invalid input
CbInvalidInput(eventId, quantity) == quantity = 0 \/ quantity < Unit

StockFilter_NoGuard(e, quantity) == TRUE
\* the filter of findOneAndUpdate: { _id: eventId, availableTickets: { $gte: quantity } }
StockFilter(e, quantity) == e.availableTickets >= quantity

\* Array.from({ length: quantity }, () => crypto.randomUUID()): the length of
\* the array is the whole part of quantity
TicketCodes(quantity) == [i \in 1..(quantity \div Unit) |-> "uuid"]

CbIdle == [pc |-> "idle", eventId |-> NoValue, quantity |-> 0,
           status |-> 0, message |-> NoValue, price |-> 0]

\* createBooking up to its first await: input validation, then the atomic
\* conditional decrement Event.findOneAndUpdate
CreateBooking_FindOneAndUpdate(r, eventId, quantity) ==
    /\ cbReq[r].pc = "idle"
    /\ IF CbInvalidInput(eventId, quantity)
       THEN /\ cbReq' = [cbReq EXCEPT ![r] = [CbIdle EXCEPT !.pc = "done",
                            !.eventId = eventId, !.quantity = quantity,
                            !.status = 400, !.message = "Invalid input"]]
            /\ UNCHANGED bkEvents
       ELSE IF eventId \in BkEventIds /\ StockFilter(bkEvents[eventId], quantity)
       THEN /\ bkEvents' = [bkEvents EXCEPT ![eventId].availableTickets = @ - quantity]
            /\ cbReq' = [cbReq EXCEPT ![r] = [CbIdle EXCEPT !.pc = "create",
                            !.eventId = eventId, !.quantity = quantity,
                            !.price = bkEvents[eventId].price]]
       ELSE /\ cbReq' = [cbReq EXCEPT ![r] = [CbIdle EXCEPT !.pc = "done",
                            !.eventId = eventId, !.quantity = quantity,
                            !.status = 400,
                            !.message = "Not enough tickets available"]]
            /\ UNCHANGED bkEvents
    /\ UNCHANGED <<bookings, payReq>>
    /\ UNCHANGED notBooking

\* createBooking after the decrement: Booking.create and the 201 response
CreateBooking_Create(r) ==
    /\ cbReq[r].pc = "create"
    /\ bookings' = Append(bookings,
          [userId |-> CbUser(r), eventId |-> cbReq[r].eventId,
           quantity |-> cbReq[r].quantity, status |-> "pending",
           totalAmount |-> cbReq[r].price * cbReq[r].quantity,
           ticketCodes |-> TicketCodes(cbReq[r].quantity), req |-> r])
    /\ cbReq' = [cbReq EXCEPT ![r].pc = "done", ![r].status = 201]
    /\ UNCHANGED <<bkEvents, payReq>>
    /\ UNCHANGED notBooking

----------------------------------------------------------------------------
(* First backend: the mock payment flow                                    *)

BookingIds == 1..(NumBookingReq + 1)    \* the last one is never allocated

PayIdle == [pc |-> "idle", op |-> NoValue, user |-> NoValue, bookingId |-> 0,
            status |-> 0]

OwnerCheck_Skipped(booking, user) == FALSE
\* if (booking.userId.toString() !== req.user.id) -> 403 Not allowed
NotOwner(booking, user) == booking.userId # user

\* Booking.findById(bookingId): the documents found (none or one)
FindBooking(bookingId) ==
    IF bookingId \in 1..Len(bookings) THEN {bookings[bookingId]} ELSE {}

\* createIntent: answers a fake client secret, writes nothing
CreateIntent(user, bookingId) ==
    /\ payReq.pc = "idle"
    /\ LET found == FindBooking(bookingId)
           code == IF found = {} THEN 404
                   ELSE IF \E booking \in found : NotOwner(booking, user)
                        THEN 403 ELSE 200
       IN payReq' = [pc |-> "done", op |-> "createIntent", user |-> user,
                     bookingId |-> bookingId, status |-> code]
    /\ UNCHANGED <<bkEvents, bookings, cbReq>>
    /\ UNCHANGED notBooking

\* confirmPayment: booking.status = "paid"; booking.save()
ConfirmPayment(user, bookingId) ==
    /\ payReq.pc = "idle"
    /\ LET found == FindBooking(bookingId) IN
       IF found = {}
       THEN /\ payReq' = [pc |-> "done", op |-> "confirmPayment", user |-> user,
                          bookingId |-> bookingId, status |-> 404]
            /\ UNCHANGED bookings
       ELSE IF \E booking \in found : NotOwner(booking, user)
       THEN /\ payReq' = [pc |-> "done", op |-> "confirmPayment", user |-> user,
                          bookingId |-> bookingId, status |-> 403]
            /\ UNCHANGED bookings
       ELSE /\ bookings' = [bookings EXCEPT ![bookingId].status = "paid"]
            /\ payReq' = [pc |-> "done", op |-> "confirmPayment", user |-> user,
                          bookingId |-> bookingId, status |-> 200]
    /\ UNCHANGED <<bkEvents, cbReq>>
    /\ UNCHANGED notBooking

\* the response has been sent; the next payment request is served
PayRespond ==
    /\ payReq.pc = "done"
    /\ payReq' = PayIdle
    /\ UNCHANGED <<bkEvents, bookings, cbReq>>
    /\ UNCHANGED notBooking

----------------------------------------------------------------------------
(* Second backend: the Event and Ticket collections                        *)

EventIds == {"e1", "e2", "e3"}
ReqEventIds == EventIds \cup {"missing"}
HoursPerDay == 24
EventDay == 1               \* the day of the published event e1
MaxPerUser == 2             \* maxTicketsPerUser of the published event e1
MinQuantity == 1
MaxTicketQuantity == 10
EventPrice == 5

\* the events of the second backend as createEvent / publishEvent leave them:
\* e1 is published and upcoming, e2 is still a draft, e3 is published and past
EventDoc(e) ==
    [status |-> IF e = "e2" THEN "draft" ELSE "published",
     date |-> IF e = "e3" THEN 0 ELSE EventDay * HoursPerDay,
     startTime |-> 18, endTime |-> 20,
     totalTickets |-> EventTotalTickets,
     availableTickets |-> EventTotalTickets,
     price |-> EventPrice,
     maxTicketsPerUser |-> MaxPerUser,
     organizerId |-> "o1"]

\* generateTicketNumber: "TKT" + the last 8 digits of Date.now() + 4 random
\* characters; 15 characters in all
TicketNumber(stamp, random) ==
    <<"T", "K", "T">> \o [i \in 1..8 |-> IF i = 8 THEN stamp ELSE "0"] \o random

DigitChar(n) == <<"0", "1", "2", "3", "4", "5", "6", "7", "8", "9">>[n + 1]

\* the number of the n-th ticket of the collection (numbers are unique)
NthTicketNumber(n) == TicketNumber(DigitChar(n), <<"R", "N", "D", DigitChar(n)>>)

\* a new Ticket document with the schema's defaults
NewTicket(n, eventId, userId, quantity, totalAmount, eventDate) ==
    [ticketNumber |-> NthTicketNumber(n), eventId |-> eventId, userId |-> userId,
     quantity |-> quantity, totalAmount |-> totalAmount,
     status |-> "pending", paymentStatus |-> "pending", eventDate |-> eventDate,
     isVerified |-> FALSE, verifiedAt |-> NoValue, verifiedBy |-> NoValue]

----------------------------------------------------------------------------
(* Second backend: bookTickets, a transaction on the Event and Ticket      *)
(* collections.  A transaction reads the snapshot taken at its first read, *)
(* keeps its writes to itself until it commits, and a write to a document  *)
(* that another transaction has written since the snapshot (committed or   *)
(* not) throws a write conflict.                                           *)

TicketReqs == 1..NumTicketReq

\* the request bodies tried: every quantity on the published event, among them
\* a missing one and one above 10, and one ticket of every other event
BtInputs ==
    {<<"e1", q>> : q \in (0..MaxQuantity) \cup {MaxTicketQuantity + 1}}
      \cup {<<e, 1>> : e \in ReqEventIds \ {"e1"}}

\* the authenticated user of a bookTickets request (req.user.id)
BtUser(r) == IF r <= 2 THEN "u1" ELSE "u2"

BtIdle == [pc |-> "idle", eventId |-> NoValue, quantity |-> 0,
           event |-> NoValue, snapTs |-> 0, snapTickets |-> <<>>,
           existingBookings |-> 0, status |-> 0, message |-> NoValue]

\* catch (error): abortTransaction, 400 with error.message; the writes of the
\* transaction are dropped
BtAbort(r, message) ==
    [btReq[r] EXCEPT !.pc = "done", !.status = 400, !.message = message,
                     !.event = NoValue, !.snapTickets = <<>>]

\* the documents a transaction has written and holds: released when it ends
ReleaseWrites(r) ==
    [e \in EventIds |-> IF evWriter[e] = r THEN 0 ELSE evWriter[e]]

RECURSIVE CountDocuments(_, _, _, _)
\* Ticket.countDocuments({ eventId, userId, status: { $in: ["pending", "confirmed"] } })
CountDocuments(docs, i, eventId, userId) ==
    IF i = 0 THEN 0
    ELSE (IF /\ docs[i].eventId = eventId
             /\ docs[i].userId = userId
             /\ docs[i].status \in {"pending", "confirmed"}
          THEN 1 ELSE 0) + CountDocuments(docs, i - 1, eventId, userId)

\* if (existingBookings + quantity > event.maxTicketsPerUser)
OverUserLimit(existingBookings, quantity, event) ==
    existingBookings + quantity > event.maxTicketsPerUser

WriteConflict_Never(r, e) == FALSE
\* event.save({ session }) inside the transaction: the update conflicts when the
\* document was written by a transaction that committed after this one's
\* snapshot, or is held by another open transaction
WriteConflict(r, e) ==
    \/ evCommitTs[e] # btReq[r].snapTs
    \/ evWriter[e] \notin {0, r}

\* bookTickets up to Event.findById: the input checks, startTransaction, the
\* read of the event (which takes the snapshot) and the checks on the event
BookTickets_FindById(r, eventId, quantity) ==
    /\ btReq[r].pc = "idle"
    /\ LET in == [BtIdle EXCEPT !.eventId = eventId, !.quantity = quantity]
           fail(m) == [in EXCEPT !.pc = "done", !.status = 400, !.message = m]
       IN
       btReq' = [btReq EXCEPT ![r] =
          IF quantity = 0
          THEN fail("Event ID and quantity are required")
          ELSE IF quantity < MinQuantity \/ quantity > MaxTicketQuantity
          THEN fail("Quantity must be between 1 and 10")
          ELSE IF eventId \notin EventIds
          THEN fail("Event not found")
          ELSE IF events[eventId].status # "published"
          THEN fail("Event is not available for booking")
          ELSE IF events[eventId].date <= now
          THEN fail("Cannot book tickets for past events")
          ELSE IF events[eventId].availableTickets < quantity
          THEN fail("Only N tickets available")
          ELSE [in EXCEPT !.pc = "count", !.event = events[eventId],
                          !.snapTs = evCommitTs[eventId],
                          !.snapTickets = tickets]]
    /\ UNCHANGED <<now, events, tickets, evCommitTs, evWriter>>
    /\ UNCHANGED notTickets

\* bookTickets: Ticket.countDocuments in the session and the per-user limit
BookTickets_Count(r) ==
    /\ btReq[r].pc = "count"
    /\ LET existingBookings ==
               CountDocuments(btReq[r].snapTickets, Len(btReq[r].snapTickets),
                              btReq[r].eventId, BtUser(r))
       IN
       btReq' = [btReq EXCEPT ![r] =
          IF OverUserLimit(existingBookings, btReq[r].quantity, btReq[r].event)
          THEN BtAbort(r, "You can only book up to N tickets for this event")
          ELSE [btReq[r] EXCEPT !.pc = "create",
                                !.existingBookings = existingBookings]]
    /\ UNCHANGED <<now, events, tickets, evCommitTs, evWriter>>
    /\ UNCHANGED notTickets

\* bookTickets: Ticket.create, generateQRCode and ticket.save in the session.
\* The insert is held by the transaction; it throws when the document is
\* refused (validation, a database error), which aborts the transaction.
BookTickets_Create(r, ok) ==
    /\ btReq[r].pc = "create"
    /\ btReq' = [btReq EXCEPT ![r] =
          IF ok THEN [btReq[r] EXCEPT !.pc = "save"]
          ELSE BtAbort(r, "Ticket validation failed")]
    /\ UNCHANGED <<now, events, tickets, evCommitTs, evWriter>>
    /\ UNCHANGED notTickets

\* bookTickets: event.availableTickets -= quantity; event.save({ session })
BookTickets_SaveEvent(r) ==
    /\ btReq[r].pc = "save"
    /\ LET e == btReq[r].eventId IN
       IF WriteConflict(r, e)
       THEN /\ btReq' = [btReq EXCEPT ![r] = BtAbort(r, "Write conflict")]
            /\ evWriter' = ReleaseWrites(r)
       ELSE /\ btReq' = [btReq EXCEPT ![r].pc = "commit",
                            ![r].event.availableTickets = @ - btReq[r].quantity]
            /\ evWriter' = [evWriter EXCEPT ![e] = r]
    /\ UNCHANGED <<now, events, tickets, evCommitTs>>
    /\ UNCHANGED notTickets

\* bookTickets: commitTransaction publishes the ticket and the event, then 201
BookTickets_Commit(r) ==
    /\ btReq[r].pc = "commit"
    /\ LET e == btReq[r].eventId IN
       /\ tickets' = Append(tickets,
             NewTicket(Len(tickets) + 1, e, BtUser(r), btReq[r].quantity,
                       btReq[r].event.price * btReq[r].quantity,
                       btReq[r].event.date))
       /\ events' = [events EXCEPT ![e].availableTickets =
                                       btReq[r].event.availableTickets]
       /\ evCommitTs' = [evCommitTs EXCEPT ![e] = @ + 1]
       /\ evWriter' = ReleaseWrites(r)
       /\ btReq' = [btReq EXCEPT ![r].pc = "done", ![r].status = 201,
                       ![r].message = "Tickets booked successfully",
                       ![r].event = NoValue, ![r].snapTickets = <<>>]
    /\ UNCHANGED now
    /\ UNCHANGED notTickets

----------------------------------------------------------------------------
(* Second backend: QR payloads and signatures (TicketGenerator)            *)

SignatureLength == 16       \* substring(0, 16)
Base64GroupBytes == 3       \* base64 turns every 3 bytes into 4 characters
Base64GroupChars == 4

\* Buffer.from(data).toString("base64"): character k of the output is decided
\* by the 3-byte group it belongs to and its place in the group
Base64Encode(bytes) ==
    [k \in 1..(Base64GroupChars * ((Len(bytes) + Base64GroupBytes - 1) \div Base64GroupBytes)) |->
        LET g == (k - 1) \div Base64GroupChars
            last == IF Base64GroupBytes * (g + 1) < Len(bytes)
                    THEN Base64GroupBytes * (g + 1) ELSE Len(bytes)
        IN  <<SubSeq(bytes, Base64GroupBytes * g + 1, last), (k - 1) % Base64GroupChars>>]

\* generateSignature: `${ticketNumber}-${eventId}-${userId}-${Date.now()}` in
\* base64, cut to its first 16 characters.  eventRef is how ticketData.eventId
\* prints: the id on a fresh ticket, the populated document at verification.
GenerateSignature(ticket, eventRef, dateNow) ==
    LET data == ticket.ticketNumber
                  \o <<"-", eventRef, "-", ticket.userId, "-", dateNow>>
        b64 == Base64Encode(data)
    IN  SubSeq(b64, 1, IF Len(b64) < SignatureLength THEN Len(b64) ELSE SignatureLength)

NoSignature == <<>>

\* generateQRCode: the payload that JSON.stringify puts into the QR image
GenerateQRCode(ticket, dateNow) ==
    [json |-> TRUE, ticketNumber |-> ticket.ticketNumber,
     signature |-> GenerateSignature(ticket, ticket.eventId, dateNow)]

\* validateTicketForEntry called without qrData
NoQrData == [json |-> FALSE, ticketNumber |-> <<>>, signature |-> NoSignature]

----------------------------------------------------------------------------
(* Second backend: dates                                                    *)

TwoHours == 2

MkDate(t) == [valid |-> TRUE, t |-> t]
InvalidDate == [valid |-> FALSE, t |-> 0]

\* a < b on Dates: false when either is an Invalid Date (NaN)
DateLess(a, b) == a.valid /\ b.valid /\ a.t < b.t

\* date.getTime() + ms
DateAdd(a, h) == IF a.valid THEN MkDate(a.t + h) ELSE InvalidDate

\* Date.prototype.toDateString: the calendar day
ToDateString(t) == t \div HoursPerDay

\* Date.prototype.toString, as the words the date parser reads:
\* "Thu Nov 05 2026" "00:00:00" "GMT+0000 (Coordinated Universal Time)"
DateToString(t) ==
    <<[kind |-> "day", val |-> t \div HoursPerDay],
      [kind |-> "time", val |-> t % HoursPerDay],
      [kind |-> "zone", val |-> 0]>>

\* string + " " + "HH:MM"
AppendTime(words, hhmm) == Append(words, [kind |-> "time", val |-> hhmm])

\* new Date(string) on a string that is not in the ISO format: the legacy
\* parser takes one date and one time of day; a second time of day makes the
\* string unparsable and the result an Invalid Date
ParseDate(words) ==
    LET days == {i \in 1..Len(words) : words[i].kind = "day"}
        times == {i \in 1..Len(words) : words[i].kind = "time"}
    IN  IF Cardinality(days) = 1 /\ Cardinality(times) <= 1
        THEN MkDate(words[CHOOSE i \in days : TRUE].val * HoursPerDay
                    + (IF times = {} THEN 0 ELSE words[CHOOSE i \in times : TRUE].val))
        ELSE InvalidDate

----------------------------------------------------------------------------
(* Second backend: ticket verification at the door                         *)

VerifyReqs == {1, 2}
Verifiers == {"o1", "o2", "a1", "u1"}
RoleOf(u) == IF u = "a1" THEN "admin" ELSE IF u = "u1" THEN "user" ELSE "organizer"

\* requireRole("organizer", "admin") on the verification routes
RequireRole(u) == RoleOf(u) \in {"organizer", "admin"}

NotAuthorized_Never(event, u) == FALSE

\* event.organizerId.toString() !== req.user.id && req.user.role !== "admin"
NotAuthorized(event, u) == event.organizerId # u /\ RoleOf(u) # "admin"

FindTicketByNumber(ticketNumber) ==
    {i \in 1..Len(tickets) : tickets[i].ticketNumber = ticketNumber}

\* ticketSchema.virtual("isValidForEntry")
IsValidForEntry(ticket) ==
    /\ ticket.status = "confirmed"
    /\ ticket.paymentStatus = "completed"
    /\ ~ ticket.isVerified
    /\ ticket.eventDate > now

\* validateTicketForEntry(ticket, qrData): the reason of the result;
\* isValid and canEnter are true exactly for "Ticket is valid for entry"
ValidateTicketForEntry(ticket, qrData) ==
    LET event == events[ticket.eventId]
        eventStartTime == ParseDate(AppendTime(DateToString(event.date), event.startTime))
        twoHoursBefore == DateAdd(eventStartTime, 0 - TwoHours)
        eventEndTime == ParseDate(AppendTime(DateToString(event.date), event.endTime))
        twoHoursAfter == DateAdd(eventEndTime, TwoHours)
    IN  IF ticket.status # "confirmed" THEN "Ticket status is not confirmed"
        ELSE IF ticket.isVerified THEN "Ticket has already been used"
        ELSE IF ToDateString(event.date) # ToDateString(now) THEN "Event is not today"
        ELSE IF DateLess(MkDate(now), twoHoursBefore) THEN "Event has not started yet"
        ELSE IF DateLess(twoHoursAfter, MkDate(now)) THEN "Event has ended"
        ELSE IF /\ qrData.signature # NoSignature
                /\ qrData.signature # GenerateSignature(ticket, "populated", now)
        THEN "Invalid QR code signature"
        ELSE "Ticket is valid for entry"

CanEnter(reason) == reason = "Ticket is valid for entry"

VIdle == [pc |-> "idle", handler |-> NoValue, user |-> NoValue, ticket |-> 0,
          qrData |-> NoQrData, canEnter |-> FALSE, status |-> 0,
          reason |-> NoValue, rest |-> <<>>]

VDone(handler, u, t, status, reason) ==
    [VIdle EXCEPT !.pc = "done", !.handler = handler, !.user = u, !.ticket = t,
                  !.status = status, !.reason = reason]

\* validation passed: the handler is about to call ticket.markAsUsed
VAdmit(handler, u, t, qrData, rest) ==
    [VIdle EXCEPT !.pc = "save", !.handler = handler, !.user = u, !.ticket = t,
                  !.qrData = qrData, !.canEnter = TRUE, !.rest = rest,
                  !.reason = "Ticket is valid for entry"]

\* verifyTicket up to the validity check: Ticket.findById, Event.findById
VerifyTicket(r, u, t) ==
    /\ vReq[r].pc = "idle"
    /\ vReq' = [vReq EXCEPT ![r] =
          IF ~ RequireRole(u) THEN VDone("verifyTicket", u, 0, 403, "Forbidden")
          ELSE IF t \notin 1..Len(tickets)
          THEN VDone("verifyTicket", u, 0, 404, "Ticket not found")
          ELSE IF NotAuthorized(events[tickets[t].eventId], u)
          THEN VDone("verifyTicket", u, t, 403, "Not authorized to verify this ticket")
          ELSE IF ~ IsValidForEntry(tickets[t])
          THEN VDone("verifyTicket", u, t, 400, "Ticket is not valid for entry")
          ELSE VAdmit("verifyTicket", u, t, NoQrData, <<>>)]
    /\ UNCHANGED <<now, events, tickets, evCommitTs, evWriter, btReq>>
    /\ UNCHANGED notVerify

\* scanTicket and verifyByTicketNumber up to the validation.  verifyByTicketNumber
\* is scanTicket's manual path with no qrData handed to the validation.
LookupAndValidate(r, handler, u, ticketNumber, qrData) ==
    LET found == FindTicketByNumber(ticketNumber) IN
    IF found = {} THEN VDone(handler, u, 0, 404, "Ticket not found")
    ELSE LET t == CHOOSE i \in found : TRUE
             reason == ValidateTicketForEntry(tickets[t], qrData)
         IN  IF NotAuthorized(events[tickets[t].eventId], u)
             THEN VDone(handler, u, t, 403,
                        "Not authorized to verify tickets for this event")
             ELSE IF ~ CanEnter(reason) THEN VDone(handler, u, t, 200, reason)
             ELSE VAdmit(handler, u, t, qrData, <<>>)

\* scanTicket: verificationMethod "qr" parses qrData as JSON, "manual" takes
\* the whole text as the ticket number (the text of a JSON payload is the
\* number of no ticket) and has no signature to hand to the validation
ScanTicket(r, u, qrData, verificationMethod) ==
    /\ vReq[r].pc = "idle"
    /\ vReq' = [vReq EXCEPT ![r] =
          IF ~ RequireRole(u) THEN VDone("scanTicket", u, 0, 403, "Forbidden")
          ELSE IF verificationMethod = "qr" /\ ~ qrData.json
          THEN VDone("scanTicket", u, 0, 400, "Invalid QR code data format")
          ELSE IF verificationMethod = "qr"
          THEN LookupAndValidate(r, "scanTicket", u, qrData.ticketNumber, qrData)
          ELSE LookupAndValidate(r, "scanTicket", u,
                  IF qrData.json THEN <<>> ELSE qrData.ticketNumber,
                  [qrData EXCEPT !.json = FALSE, !.signature = NoSignature])]
    /\ UNCHANGED <<now, events, tickets, evCommitTs, evWriter, btReq>>
    /\ UNCHANGED notVerify

VerifyByTicketNumber(r, u, ticketNumber) ==
    /\ vReq[r].pc = "idle"
    /\ vReq' = [vReq EXCEPT ![r] =
          IF ~ RequireRole(u) THEN VDone("verifyByTicketNumber", u, 0, 403, "Forbidden")
          ELSE LookupAndValidate(r, "verifyByTicketNumber", u, ticketNumber, NoQrData)]
    /\ UNCHANGED <<now, events, tickets, evCommitTs, evWriter, btReq>>
    /\ UNCHANGED notVerify

\* bulkVerifyTickets: the checks on the array; the loop follows
BulkVerifyTickets(r, u, list) ==
    /\ vReq[r].pc = "idle"
    /\ vReq' = [vReq EXCEPT ![r] =
          IF ~ RequireRole(u) THEN VDone("bulkVerifyTickets", u, 0, 403, "Forbidden")
          ELSE IF list = <<>>
          THEN VDone("bulkVerifyTickets", u, 0, 400, "Tickets array is required")
          ELSE [VIdle EXCEPT !.pc = "next", !.handler = "bulkVerifyTickets",
                             !.user = u, !.rest = list]]
    /\ UNCHANGED <<now, events, tickets, evCommitTs, evWriter, btReq>>
    /\ UNCHANGED notVerify

\* one turn of the loop of bulkVerifyTickets up to markAsUsed; the validation
\* gets no qrData.  After the last ticket the response is sent.
BulkNext(r) ==
    /\ vReq[r].pc = "next"
    /\ vReq' = [vReq EXCEPT ![r] =
          IF vReq[r].rest = <<>>
          THEN [vReq[r] EXCEPT !.pc = "done", !.status = 200]
          ELSE LET one == LookupAndValidate(r, "bulkVerifyTickets", vReq[r].user,
                                            Head(vReq[r].rest), NoQrData)
               IN  [one EXCEPT !.pc = IF one.canEnter THEN "save" ELSE "next",
                               !.rest = Tail(vReq[r].rest)]]
    /\ UNCHANGED <<now, events, tickets, evCommitTs, evWriter, btReq>>
    /\ UNCHANGED notVerify

\* ticketSchema.methods.markAsUsed(verifiedBy), then the response (or, in
\* bulkVerifyTickets, the next turn of the loop)
MarkAsUsed(r) ==
    /\ vReq[r].pc = "save"
    /\ tickets' = [tickets EXCEPT ![vReq[r].ticket] =
                      [@ EXCEPT !.status = "used", !.isVerified = TRUE,
                                !.verifiedAt = now, !.verifiedBy = vReq[r].user]]
    /\ vReq' = [vReq EXCEPT ![r].pc =
                   IF vReq[r].handler = "bulkVerifyTickets" THEN "next" ELSE "done",
                            ![r].status = 200]
    /\ UNCHANGED <<now, events, evCommitTs, evWriter, btReq>>
    /\ UNCHANGED notVerify

\* the response has been sent; the slot serves the next request
VerifyRespond(r) ==
    /\ vReq[r].pc = "done"
    /\ vReq' = [vReq EXCEPT ![r] = VIdle]
    /\ UNCHANGED <<now, events, tickets, evCommitTs, evWriter, btReq>>
    /\ UNCHANGED notVerify

\* the instants at which the clock is looked at: around midnight before the
\* event's day, in its morning, at the edges of the entry window, after it
\* and on the next day
ClockPoints ==
    LET day == EventDay * HoursPerDay
        start == day + EventDoc("e1").startTime
        end == day + EventDoc("e1").endTime
    IN  {day - 1, day + 6, start - TwoHours - 1, start - TwoHours, start,
         end + TwoHours, end + TwoHours + 1, day + HoursPerDay}

\* time passes
AdvanceClock(t) ==
    /\ t > now
    /\ now' = t
    /\ UNCHANGED <<events, tickets, evCommitTs, evWriter, btReq, vReq>>
    /\ UNCHANGED notVerify

----------------------------------------------------------------------------
(* The /scan route: requireRole, then qrScanRateLimiter, then scanTicket    *)

MaxScans == 50          \* max
WindowMinutes == 5      \* windowMs
MaxOtherScans == 3

\* the clients of the route: an organizer from two addresses, an admin and a
\* plain user
Requesters == {<<"ip1", "o1">>, <<"ip2", "o1">>, <<"ip1", "a1">>, <<"ip1", "u1">>}

\* keyGenerator: `${req.ip}-${req.user.id}`
KeyGenerator(ip, u) == <<ip, u>>

RlKeys == {KeyGenerator(q[1], q[2]) : q \in Requesters}

\* skip: req.user && req.user.role === "admin"
Skip(u) == RoleOf(u) = "admin"

OverLimit_OffByOne(totalHits) == totalHits > MaxScans + 1

\* the limiter answers through its handler when totalHits > max
OverLimit(totalHits) == totalHits > MaxScans

\* the window of a key is over (or the key was never seen)
WindowOver(key) == rlStore[key].resetTime <= rlClock

\* the store's increment: a first hit opens a window of windowMs, a later hit
\* in the window adds one
Increment(key) ==
    IF WindowOver(key)
    THEN [totalHits |-> 1, resetTime |-> rlClock + WindowMinutes]
    ELSE [rlStore[key] EXCEPT !.totalHits = @ + 1]

\* how many requests the model lets one client send in one window
SendCap(key) == IF key[1] = "ip1" THEN MaxScans + 2 ELSE MaxOtherScans

\* one request POST /scan of user u from address ip, up to the call of
\* scanTicket or the response of a middleware
QrScanRoute(ip, u) ==
    LET key == KeyGenerator(ip, u) IN
    /\ IF ~ RequireRole(u)
       THEN /\ rlReq' = [key |-> key, outcome |-> "403"]
            /\ UNCHANGED <<rlStore, rlPassed>>
       ELSE IF Skip(u)
       THEN /\ rlReq' = [key |-> key, outcome |-> "scanTicket"]
            /\ UNCHANGED <<rlStore, rlPassed>>
       ELSE /\ WindowOver(key) \/ rlStore[key].totalHits < SendCap(key)
            /\ rlStore' = [rlStore EXCEPT ![key] = Increment(key)]
            /\ IF OverLimit(Increment(key).totalHits)
               THEN /\ rlReq' = [key |-> key, outcome |-> "429"]
                    /\ rlPassed' = [rlPassed EXCEPT ![key] =
                                       IF WindowOver(key) THEN 0 ELSE @]
               ELSE /\ rlReq' = [key |-> key, outcome |-> "scanTicket"]
                    /\ rlPassed' = [rlPassed EXCEPT ![key] =
                                       IF WindowOver(key) THEN 1 ELSE @ + 1]
    /\ UNCHANGED rlClock
    /\ UNCHANGED notRate

\* the instants at which requests arrive: in a first window, at its end and
\* in the windows that follow
RlClockPoints ==
    {0, WindowMinutes - 1, WindowMinutes, WindowMinutes + 1, 2 * WindowMinutes}

\* time passes
RlTick(t) ==
    /\ t > rlClock
    /\ rlClock' = t
    /\ UNCHANGED <<rlStore, rlReq, rlPassed>>
    /\ UNCHANGED notRate

----------------------------------------------------------------------------
(* VerificationLog: risk score on save, rate limit information, flags       *)

WeightNotValid == 20
WeightSignature == 30
WeightNotFound == 25
WeightOddHour == 15
WeightRateLimit == 20
WeightLocation == 5
MaxRiskScore == 100
SuspiciousAbove == 70
EarlyHour == 6
LateHour == 22
ManyAttempts == 10
FlagPenalty == 20
RateWindowMinutes == 15     \* windowSize = 15 * 60 * 1000
MaxAttempts == 12

\* verificationResult of the logged attempt: isValid and the words of reason
LogResults ==
    {<<TRUE, <<"Ticket", "is", "valid", "for", "entry">>>>,
     <<FALSE, <<"Invalid", "QR", "code", "signature">>>>,
     <<FALSE, <<"Ticket", "not", "found">>>>,
     <<FALSE, <<"Ticket", "has", "already", "been", "used">>>>}

LogHours == {EarlyHour - 1, EarlyHour, LateHour, LateHour + 1}

SuspiciousReasons == {"signature_mismatch", "multiple_failed_attempts", "rate_limit_exceeded"}

\* String.prototype.includes on the words of a string
Includes(str, sub) ==
    \E i \in 1..(Len(str) - Len(sub) + 1) : SubSeq(str, i, i + Len(sub) - 1) = sub

MinOf(a, b) == IF a < b THEN a ELSE b

\* the getter of a nested path of a mongoose schema (location, and
\* location.coordinates in it): it returns the nested object of the document
\* whether or not a value was ever set, and an object is truthy
NestedPath(doc, path) == [truthy |-> TRUE, isSet |-> doc.hasCoordinates, path |-> path]

NoLog == [pc |-> "none", isValid |-> FALSE, reason |-> <<>>, hour |-> 0,
          hasRequired |-> FALSE, hasCoordinates |-> FALSE,
          attemptsInWindow |-> 0, windowStart |-> 0, riskScore |-> 0,
          isSuspicious |-> FALSE, suspiciousReasons |-> {}]

\* verificationLogSchema.pre("save"): the risk score and the suspicious mark
PreSave(doc) ==
    LET riskScore ==
            (IF ~ doc.isValid THEN WeightNotValid ELSE 0)
          + (IF Includes(doc.reason, <<"signature">>) THEN WeightSignature ELSE 0)
          + (IF Includes(doc.reason, <<"not", "found">>) THEN WeightNotFound ELSE 0)
          + (IF doc.hour < EarlyHour \/ doc.hour > LateHour THEN WeightOddHour ELSE 0)
          + (IF doc.attemptsInWindow > ManyAttempts THEN WeightRateLimit ELSE 0)
          + (IF NestedPath(doc, "location").truthy
                /\ NestedPath(doc, "location.coordinates").truthy
             THEN WeightLocation ELSE 0)
        capped == MinOf(riskScore, MaxRiskScore)
    IN  [doc EXCEPT !.riskScore = capped,
                    !.isSuspicious = IF capped > SuspiciousAbove THEN TRUE ELSE @]

\* doc.save(): validation of the required paths, then the pre-save hook, then
\* the write
SaveLog(doc) ==
    IF ~ doc.hasRequired THEN [doc EXCEPT !.pc = "failed"]
    ELSE [PreSave(doc) EXCEPT !.pc = "saved"]

\* new VerificationLog({...}) with the schema's defaults
NewVerificationLog(result, hour, hasRequired, hasCoordinates) ==
    /\ vlog.pc \in {"none", "saved", "failed"}
    /\ vlog' = [NoLog EXCEPT !.pc = "new", !.isValid = result[1], !.reason = result[2],
                             !.hour = hour, !.hasRequired = hasRequired,
                             !.hasCoordinates = hasCoordinates,
                             !.attemptsInWindow = 1, !.windowStart = logClock]
    /\ UNCHANGED logClock
    /\ UNCHANGED notLog

\* verificationLog.save()
Save ==
    /\ vlog.pc \in {"new", "saved"}
    /\ vlog' = SaveLog(vlog)
    /\ UNCHANGED logClock
    /\ UNCHANGED notLog

\* verificationLogSchema.methods.updateRateLimit
UpdateRateLimit ==
    /\ vlog.pc \in {"new", "saved"}
    /\ vlog.attemptsInWindow < MaxAttempts
    /\ vlog' = SaveLog(
          IF vlog.windowStart < logClock - RateWindowMinutes
          THEN [vlog EXCEPT !.attemptsInWindow = 1, !.windowStart = logClock]
          ELSE [vlog EXCEPT !.attemptsInWindow = @ + 1])
    /\ UNCHANGED logClock
    /\ UNCHANGED notLog

\* verificationLogSchema.methods.addSuspiciousFlag
AddSuspiciousFlag(reason) ==
    /\ vlog.pc \in {"new", "saved"}
    /\ LET riskScore == MinOf(vlog.riskScore + FlagPenalty, MaxRiskScore)
       IN  vlog' = SaveLog([vlog EXCEPT
                      !.suspiciousReasons = @ \cup {reason},
                      !.riskScore = riskScore,
                      !.isSuspicious = IF riskScore > SuspiciousAbove THEN TRUE ELSE @])
    /\ UNCHANGED logClock
    /\ UNCHANGED notLog

\* the instants at which the methods read the clock: within the rate window
\* of a log created at 0 and after it
LogClockPoints == {0, RateWindowMinutes, RateWindowMinutes + 1}

LogTick(t) ==
    /\ t > logClock
    /\ logClock' = t
    /\ UNCHANGED vlog
    /\ UNCHANGED notLog

----------------------------------------------------------------------------
(* Second backend: payments.  A document loaded without a session is saved  *)
(* outside the transaction, at once and whatever the stored document has    *)
(* become; a document loaded in the session is saved inside the             *)
(* transaction.  save() sends the paths that were modified only.            *)

MaxPayments == 2

PayOpSlots == {1, 2}

\* the transaction of the request in slot r (bookTickets has its own)
PayTxn(r) == NumTicketReq + r

\* the ticket and payment ids that requests name: the first ticket, the
\* payments there can be, and one id that names nothing
PayTicketIds == {1, MaxPayments + 2}
PaymentIds == 1..(MaxPayments + 1)

NoRefund == [refundId |-> NoValue, refundAmount |-> 0, refundedBy |-> NoValue]

PayOpIdle == [pc |-> "idle", op |-> NoValue, user |-> NoValue, payment |-> 0,
              ticket |-> 0, amount |-> 0, quantity |-> 0,
              tkStatus |-> NoValue, tkPaymentStatus |-> NoValue, evAvailable |-> 0 - 1,
              status |-> 0, message |-> NoValue]

PayOpDone(op, user, payment, status, message) ==
    [PayOpIdle EXCEPT !.pc = "done", !.op = op, !.user = user, !.payment = payment,
                      !.status = status, !.message = message]

\* createPaymentIntent: the checks on the ticket, Payment.create and the save
\* of the gateway response.  Payment.create throws when the document is
\* refused (paymentId is required and only generated in the pre-save hook).
CreatePaymentIntent(user, ticketId, ok) ==
    /\ Len(payments) < MaxPayments
    /\ ticketId \in 1..Len(tickets)
    /\ tickets[ticketId].userId = user
    /\ tickets[ticketId].paymentStatus = "pending"
    /\ events[tickets[ticketId].eventId].date > now
    /\ ok
    /\ payments' = Append(payments,
          [ticketId |-> ticketId, userId |-> tickets[ticketId].userId,
           eventId |-> tickets[ticketId].eventId,
           amount |-> tickets[ticketId].totalAmount,
           status |-> "pending", refundDetails |-> NoRefund])
    /\ UNCHANGED <<payOps, tkWriter, events, tickets, evCommitTs, evWriter>>
    /\ UNCHANGED notPay

\* processPayment up to startTransaction: Payment.findById and the checks
ProcessPayment_FindById(r, user, paymentId) ==
    /\ payOps[r].pc = "idle"
    /\ payOps' = [payOps EXCEPT ![r] =
          IF paymentId \notin 1..Len(payments)
          THEN PayOpDone("processPayment", user, 0, 404, "Payment not found")
          ELSE IF payments[paymentId].userId # user
          THEN PayOpDone("processPayment", user, paymentId, 403,
                         "Not authorized to process this payment")
          ELSE IF payments[paymentId].status # "pending"
          THEN PayOpDone("processPayment", user, paymentId, 400, "Payment is not pending")
          ELSE [PayOpIdle EXCEPT !.pc = "gateway", !.op = "processPayment",
                                 !.user = user, !.payment = paymentId,
                                 !.ticket = payments[paymentId].ticketId]]
    /\ UNCHANGED <<payments, tkWriter, events, tickets, evCommitTs, evWriter>>
    /\ UNCHANGED notPay

\* processPayment: simulatePaymentProcessing, then markAsCompleted or
\* markAsFailed (payment.save() outside the transaction); after markAsFailed
\* the empty transaction is committed and the answer is 400
ProcessPayment_Gateway(r, isPaymentSuccessful) ==
    /\ payOps[r].pc = "gateway"
    /\ payments' = [payments EXCEPT ![payOps[r].payment].status =
                       IF isPaymentSuccessful THEN "completed" ELSE "failed"]
    /\ payOps' = [payOps EXCEPT ![r] =
          IF isPaymentSuccessful THEN [payOps[r] EXCEPT !.pc = "ticket"]
          ELSE [payOps[r] EXCEPT !.pc = "done", !.status = 400,
                                 !.message = "Payment processing failed"]]
    /\ UNCHANGED <<tkWriter, events, tickets, evCommitTs, evWriter>>
    /\ UNCHANGED notPay

\* a save in a transaction of a ticket that another open transaction has written
TicketConflict(r, t) == tkWriter[t] \notin {0, PayTxn(r)}

\* the same for an event
EventConflict(r, e) == evWriter[e] \notin {0, PayTxn(r)}

\* catch (error): abortTransaction; the writes held by the transaction are dropped
PayOpAbort(r, status, message) ==
    [payOps[r] EXCEPT !.pc = "done", !.status = status, !.message = message,
                      !.tkStatus = NoValue, !.tkPaymentStatus = NoValue,
                      !.evAvailable = 0 - 1]

\* processPayment: Ticket.findById in the session, paymentStatus completed,
\* status confirmed, ticket.save in the session
ProcessPayment_Ticket(r) ==
    /\ payOps[r].pc = "ticket"
    /\ LET t == payOps[r].ticket
           modified == tickets[t].paymentStatus # "completed" \/ tickets[t].status # "confirmed"
       IN  IF modified /\ TicketConflict(r, t)
           THEN /\ payOps' = [payOps EXCEPT ![r] =
                                 PayOpAbort(r, 500, "Payment processing error")]
                /\ UNCHANGED tkWriter
           ELSE /\ payOps' = [payOps EXCEPT ![r].pc = "commit",
                                 ![r].tkStatus = "confirmed",
                                 ![r].tkPaymentStatus = "completed"]
                /\ tkWriter' = IF modified THEN [tkWriter EXCEPT ![t] = PayTxn(r)]
                               ELSE tkWriter
    /\ UNCHANGED <<payments, events, tickets, evCommitTs, evWriter>>
    /\ UNCHANGED notPay

\* commitTransaction: the writes held by the transaction of slot r are
\* published and its documents released; then the success response
PayOp_Commit(r) ==
    /\ payOps[r].pc = "commit"
    /\ LET t == payOps[r].ticket
           e == tickets[t].eventId
       IN  /\ tickets' = IF payOps[r].tkStatus = NoValue THEN tickets
                         ELSE [tickets EXCEPT ![t].status = payOps[r].tkStatus,
                                  ![t].paymentStatus =
                                     IF payOps[r].tkPaymentStatus = NoValue THEN @
                                     ELSE payOps[r].tkPaymentStatus]
           /\ events' = IF payOps[r].evAvailable < 0 THEN events
                        ELSE [events EXCEPT ![e].availableTickets = payOps[r].evAvailable]
           /\ evCommitTs' = IF payOps[r].evAvailable < 0 THEN evCommitTs
                            ELSE [evCommitTs EXCEPT ![e] = @ + 1]
           /\ tkWriter' = [x \in DOMAIN tkWriter |->
                              IF tkWriter[x] = PayTxn(r) THEN 0 ELSE tkWriter[x]]
           /\ evWriter' = [x \in EventIds |->
                              IF evWriter[x] = PayTxn(r) THEN 0 ELSE evWriter[x]]
    /\ payOps' = [payOps EXCEPT ![r].pc = "done", ![r].status = 200,
                     ![r].tkStatus = NoValue, ![r].tkPaymentStatus = NoValue,
                     ![r].evAvailable = 0 - 1]
    /\ UNCHANGED payments
    /\ UNCHANGED notPay

\* the response has been sent; an aborted transaction releases its documents;
\* the slot serves the next request
PayOp_Respond(r) ==
    /\ payOps[r].pc = "done"
    /\ payOps' = [payOps EXCEPT ![r] = PayOpIdle]
    /\ tkWriter' = [x \in DOMAIN tkWriter |->
                       IF tkWriter[x] = PayTxn(r) THEN 0 ELSE tkWriter[x]]
    /\ evWriter' = [x \in EventIds |->
                       IF evWriter[x] = PayTxn(r) THEN 0 ELSE evWriter[x]]
    /\ UNCHANGED <<payments, events, tickets, evCommitTs>>
    /\ UNCHANGED notPay

\* paymentSchema.virtual("canBeRefunded")
CanBeRefunded(payment) ==
    payment.status = "completed" /\ payment.refundDetails.refundId = NoValue

\* ticketSchema.virtual("canBeCancelled")
CanBeCancelled(ticket) ==
    ticket.status = "confirmed" /\ ticket.paymentStatus = "completed" /\ ticket.eventDate > now

RefundCallers == {"o1", "o2"}
RefundAmounts == {0, EventPrice - 1, EventPrice, EventPrice + 1}

\* processRefund up to startTransaction: the body check, Payment.findById
\* with its ticket and event populated, and the checks
ProcessRefund_FindById(r, user, paymentId, refundAmount) ==
    /\ payOps[r].pc = "idle"
    /\ RequireRole(user)
    /\ payOps' = [payOps EXCEPT ![r] =
          IF refundAmount = 0
          THEN PayOpDone("processRefund", user, 0, 400, "Refund amount and reason are required")
          ELSE IF paymentId \notin 1..Len(payments)
          THEN PayOpDone("processRefund", user, 0, 404, "Payment not found")
          ELSE IF RoleOf(user) # "admin"
                  /\ events[payments[paymentId].eventId].organizerId # user
          THEN PayOpDone("processRefund", user, paymentId, 403,
                         "Not authorized to process refunds for this payment")
          ELSE IF ~CanBeRefunded(payments[paymentId])
          THEN PayOpDone("processRefund", user, paymentId, 400, "Payment cannot be refunded")
          ELSE IF refundAmount > payments[paymentId].amount
          THEN PayOpDone("processRefund", user, paymentId, 400,
                         "Refund amount cannot exceed payment amount")
          ELSE [PayOpIdle EXCEPT !.pc = "refund", !.op = "processRefund",
                   !.user = user, !.payment = paymentId,
                   !.ticket = payments[paymentId].ticketId,
                   !.amount = refundAmount,
                   !.quantity = tickets[payments[paymentId].ticketId].quantity]]
    /\ UNCHANGED <<payments, tkWriter, events, tickets, evCommitTs, evWriter>>
    /\ UNCHANGED notPay

\* payment.processRefund(refundAmount, refundReason, refundedBy): status
\* refunded and the refund details, payment.save() outside the transaction;
\* a partial refund then commits the empty transaction
ProcessRefund_Payment(r) ==
    /\ payOps[r].pc = "refund"
    /\ payments' = [payments EXCEPT ![payOps[r].payment].status = "refunded",
          ![payOps[r].payment].refundDetails =
              [refundId |-> "REF", refundAmount |-> payOps[r].amount,
               refundedBy |-> payOps[r].user]]
    /\ payOps' = [payOps EXCEPT ![r].pc =
          IF payOps[r].amount = payments[payOps[r].payment].amount
          THEN "refundTicket" ELSE "commit"]
    /\ UNCHANGED <<tkWriter, events, tickets, evCommitTs, evWriter>>
    /\ UNCHANGED notPay

\* the availableTickets validator of the Event schema; validation runs
\* before the pre("save") hook that would clamp the value
EventInvalid(e, availableTickets) ==
    availableTickets < 0 \/ availableTickets > events[e].totalTickets

\* the full refund in the transaction: the ticket becomes refunded and
\* payment.ticketId.quantity is added to event.availableTickets
ProcessRefund_TicketAndEvent(r) ==
    /\ payOps[r].pc = "refundTicket"
    /\ LET t == payOps[r].ticket
           e == payments[payOps[r].payment].eventId
           modified == tickets[t].paymentStatus # "refunded" \/ tickets[t].status # "refunded"
           available == events[e].availableTickets + payOps[r].quantity
       IN  IF \/ modified /\ TicketConflict(r, t)
              \/ EventConflict(r, e)
              \/ EventInvalid(e, available)
           THEN /\ payOps' = [payOps EXCEPT ![r] =
                                 PayOpAbort(r, 500, "Refund processing error")]
                /\ UNCHANGED <<tkWriter, evWriter>>
           ELSE /\ payOps' = [payOps EXCEPT ![r].pc = "commit",
                                 ![r].tkStatus = "refunded",
                                 ![r].tkPaymentStatus = "refunded",
                                 ![r].evAvailable = available]
                /\ tkWriter' = IF modified THEN [tkWriter EXCEPT ![t] = PayTxn(r)]
                               ELSE tkWriter
                /\ evWriter' = [evWriter EXCEPT ![e] = PayTxn(r)]
    /\ UNCHANGED <<payments, events, tickets, evCommitTs>>
    /\ UNCHANGED notPay

CancelCallers == {"u1", "u2"}

\* cancelTicket inside its transaction: Ticket.findById in the session, the
\* checks (each throws), ticket.cancelTicket(reason), and ticket.quantity
\* added to event.availableTickets; every throw is answered 400
CancelTicket_Write(r, user, ticketId) ==
    /\ payOps[r].pc = "idle"
    /\ LET req == [PayOpIdle EXCEPT !.op = "cancelTicket", !.user = user]
       IN  IF ticketId \notin 1..Len(tickets)
           THEN /\ payOps' = [payOps EXCEPT ![r] =
                                 [req EXCEPT !.pc = "done", !.status = 400,
                                             !.message = "Ticket not found"]]
                /\ UNCHANGED <<tkWriter, evWriter>>
           ELSE LET ticket == tickets[ticketId]
                    e == ticket.eventId
                    available == events[e].availableTickets + ticket.quantity
                    error == IF ticket.userId # user /\ RoleOf(user) # "admin"
                             THEN "Not authorized to cancel this ticket"
                             ELSE IF ~CanBeCancelled(ticket)
                             THEN "Ticket cannot be cancelled"
                             ELSE IF TicketConflict(r, ticketId) \/ EventConflict(r, e)
                             THEN "Write conflict"
                             ELSE IF EventInvalid(e, available)
                             THEN "Available tickets cannot exceed total tickets"
                             ELSE NoValue
                IN  IF error # NoValue
                    THEN /\ payOps' = [payOps EXCEPT ![r] =
                                 [req EXCEPT !.pc = "done", !.ticket = ticketId,
                                             !.status = 400, !.message = error]]
                         /\ UNCHANGED <<tkWriter, evWriter>>
                    ELSE /\ payOps' = [payOps EXCEPT ![r] =
                                 [req EXCEPT !.pc = "commit", !.ticket = ticketId,
                                             !.quantity = ticket.quantity,
                                             !.tkStatus = "cancelled",
                                             !.evAvailable = available]]
                         /\ tkWriter' = [tkWriter EXCEPT ![ticketId] = PayTxn(r)]
                         /\ evWriter' = [evWriter EXCEPT ![e] = PayTxn(r)]
    /\ UNCHANGED <<payments, events, tickets, evCommitTs>>
    /\ UNCHANGED notPay

----------------------------------------------------------------------------
(* Authentication: register and login over the User collection             *)

Emails == {"ann@x.io", "bob@x.io"}
NoEmail == ""                       \* a missing email
NoString == <<>>                    \* a missing or undefined password or hash
UpperCase == {"A", "Z"}
LowerCase == {"b", "c", "d", "e", "y"}
Digits == {"1", "2"}
MinPasswordLength == 6

\* the passwords tried: two that pass validatePassword and one failing each rule
Passwords ==
    { <<"A", "b", "c", "d", "e", "1">>, <<"Z", "y", "c", "d", "e", "2">>,
      <<"A", "b", "1">>, <<"b", "c", "d", "e", "y", "1">>,
      <<"A", "b", "c", "d", "e", "y">> }

\* validatePassword: the message of the first rule broken, NoValue when valid
ValidatePassword(password) ==
    IF Len(password) < MinPasswordLength
    THEN "Password must be at least 6 characters long"
    ELSE IF ~ (\E i \in 1..Len(password) : password[i] \in UpperCase)
            \/ ~ (\E i \in 1..Len(password) : password[i] \in LowerCase)
    THEN "Password must contain both uppercase and lowercase letters"
    ELSE IF ~ (\E i \in 1..Len(password) : password[i] \in Digits)
    THEN "Password must contain at least one number"
    ELSE NoValue

\* bcrypt.hash(data, 12): a salted hash that bcrypt.compare recognises as the
\* hash of data and of nothing else
BcryptHash(data) == <<"$2a$12$">> \o data

\* bcrypt.compare(s, hash): rejects ("throws") when hash is not a string
BcryptCompare(s, hash) ==
    IF hash = NoString THEN "throws"
    ELSE IF hash = BcryptHash(s) THEN "true" ELSE "false"

\* userSchema.pre("save"): a new document's password is modified, so it is hashed
PreSaveUser(doc) == [doc EXCEPT !.password = BcryptHash(doc.password)]

\* a query result: the password path is declared select: false, so it is left
\* out of the documents a query returns
SelectDefault(doc) == [doc EXCEPT !.password = NoString]

\* User.findOne({ email })
FindOneUser(email) == {SelectDefault(u) : u \in {d \in users : d.email = email}}

NoToken == [id |-> NoValue, role |-> NoValue, email |-> NoValue]
\* jwt.sign({ id, role, email }, JWT_SECRET)
JwtSign(user) == [id |-> user.id, role |-> user.role, email |-> user.email]

AuthIdle == [pc |-> "idle", op |-> NoValue, email |-> NoEmail,
             password |-> NoString, status |-> 0, message |-> NoValue,
             token |-> NoToken]

AuthDone(op, email, password, status, message, token) ==
    [pc |-> "done", op |-> op, email |-> email, password |-> password,
     status |-> status, message |-> message, token |-> token]

\* register (a name is always given)
Register(email, password) ==
    /\ authReq.pc = "idle"
    /\ LET respond(st, m, t) == AuthDone("register", email, password, st, m, t)
           hash == BcryptHash(password)
           user == PreSaveUser(
                     [id |-> email, email |-> email, password |-> hash,
                      role |-> "user",
                      registeredWith |-> password])  \* history: what the client sent
       IN
       IF email = NoEmail \/ password = NoString
       THEN /\ authReq' = respond(400, "Name, email, and password are required", NoToken)
            /\ UNCHANGED users
       ELSE IF ValidatePassword(password) # NoValue
       THEN /\ authReq' = respond(400, ValidatePassword(password), NoToken)
            /\ UNCHANGED users
       ELSE IF FindOneUser(email) # {}
       THEN /\ authReq' = respond(409, "Email already registered", NoToken)
            /\ UNCHANGED users
       ELSE /\ users' = users \cup {user}
            /\ authReq' = respond(201, "User registered successfully", JwtSign(user))
    /\ UNCHANGED notAuth

\* login
Login(email, password) ==
    /\ authReq.pc = "idle"
    /\ LET respond(st, m, t) == AuthDone("login", email, password, st, m, t)
           found == FindOneUser(email)
       IN
       authReq' =
         IF email = NoEmail \/ password = NoString
         THEN respond(400, "Email and password are required", NoToken)
         ELSE IF found = {}
         THEN respond(401, "Invalid credentials", NoToken)
         ELSE LET user == CHOOSE u \in found : TRUE
                  isPasswordValid == BcryptCompare(password, user.password)
              IN  IF isPasswordValid = "throws"
                  THEN respond(500, "Server error during login", NoToken)
                  ELSE IF isPasswordValid = "false"
                  THEN respond(401, "Invalid credentials", NoToken)
                  ELSE respond(200, "Login successful", JwtSign(user))
    /\ UNCHANGED users
    /\ UNCHANGED notAuth

\* the response has been sent; the next request is served
AuthRespond ==
    /\ authReq.pc = "done"
    /\ authReq' = AuthIdle
    /\ UNCHANGED users
    /\ UNCHANGED notAuth

----------------------------------------------------------------------------
(* Specifications: one per subsystem.  Each starts from the state after     *)
(* construction: the variables of the other subsystems keep that state.     *)

InitBookingVars ==
    /\ bkEvents = [e \in BkEventIds |->
                     [totalTickets |-> TotalTickets * Unit,
                      availableTickets |-> TotalTickets * Unit, price |-> TicketPrice]]
    /\ bookings = <<>>
    /\ cbReq = [r \in BookingReqs |-> CbIdle]
    /\ payReq = PayIdle

InitTicketVars ==
    /\ now = 0
    /\ events = [e \in EventIds |-> EventDoc(e)]
    /\ tickets = <<>>
    /\ evCommitTs = [e \in EventIds |-> 0]
    /\ evWriter = [e \in EventIds |-> 0]
    /\ btReq = [r \in TicketReqs |-> BtIdle]

InitPayVars ==
    /\ payments = <<>>
    /\ payOps = [r \in PayOpSlots |-> PayOpIdle]
    /\ tkWriter = [t \in {} |-> 0]

InitVerifyVars == vReq = [r \in VerifyReqs |-> VIdle]

InitAuthVars == users = {} /\ authReq = AuthIdle

InitRateVars ==
    /\ rlStore = [k \in RlKeys |-> [totalHits |-> 0, resetTime |-> 0]]
    /\ rlReq = [key |-> <<NoValue, NoValue>>, outcome |-> NoValue]
    /\ rlClock = 0
    /\ rlPassed = [k \in RlKeys |-> 0]

InitLogVars == vlog = NoLog /\ logClock = 0

\* ticket booking in the second backend
Init ==
    /\ InitTicketVars
    /\ InitBookingVars /\ InitVerifyVars /\ InitAuthVars /\ InitRateVars /\ InitLogVars
    /\ InitPayVars

Next ==
    \/ \E r \in TicketReqs, in \in BtInputs : BookTickets_FindById(r, in[1], in[2])
    \/ \E r \in TicketReqs : BookTickets_Count(r)
    \/ \E r \in TicketReqs, ok \in BOOLEAN : BookTickets_Create(r, ok)
    \/ \E r \in TicketReqs : BookTickets_SaveEvent(r)
    \/ \E r \in TicketReqs : BookTickets_Commit(r)

Spec == Init /\ [][Next]_vars

\* the first backend: bookings and the mock payment flow
InitBooking ==
    /\ InitBookingVars
    /\ InitTicketVars /\ InitVerifyVars /\ InitAuthVars /\ InitRateVars /\ InitLogVars
    /\ InitPayVars

NextBooking ==
    \/ \E r \in BookingReqs, in \in CbInputs :
          CreateBooking_FindOneAndUpdate(r, in[1], in[2])
    \/ \E r \in BookingReqs : CreateBooking_Create(r)
    \/ \E u \in UserIds, b \in BookingIds : CreateIntent(u, b)
    \/ \E u \in UserIds, b \in BookingIds : ConfirmPayment(u, b)
    \/ PayRespond

SpecBooking == InitBooking /\ [][NextBooking]_vars

\* ticket verification: one ticket of user u1 for the event e1, still unpaid or
\* paid and confirmed by processPayment
PaidTicket(paid) ==
    [NewTicket(1, "e1", "u1", 1, EventPrice, EventDoc("e1").date) EXCEPT
        !.status = IF paid THEN "confirmed" ELSE "pending",
        !.paymentStatus = IF paid THEN "completed" ELSE "pending"]

\* the QR payloads shown to the scanner: the one generateQRCode made for the
\* ticket when it was booked, the same with the signature of another ticket,
\* the same without a signature, one naming no ticket of the system, and text
\* that is no JSON
QrInputs ==
    LET genuine == GenerateQRCode(PaidTicket(TRUE), 0)
        other == [PaidTicket(TRUE) EXCEPT !.ticketNumber = NthTicketNumber(2)]
    IN  {genuine,
         [genuine EXCEPT !.signature = GenerateSignature(other, "e1", 0)],
         [genuine EXCEPT !.signature = NoSignature],
         GenerateQRCode(other, 0),
         [genuine EXCEPT !.json = FALSE, !.signature = NoSignature]}

BulkInputs ==
    {<<>>, <<NthTicketNumber(1)>>, <<NthTicketNumber(1), NthTicketNumber(1)>>,
     <<NthTicketNumber(2), NthTicketNumber(1)>>}

InitVerify ==
    /\ now = EventDay * HoursPerDay - 1
    /\ events = [e \in EventIds |-> EventDoc(e)]
    /\ \E paid \in BOOLEAN : tickets = <<PaidTicket(paid)>>
    /\ evCommitTs = [e \in EventIds |-> 0]
    /\ evWriter = [e \in EventIds |-> 0]
    /\ btReq = [r \in TicketReqs |-> BtIdle]
    /\ InitVerifyVars
    /\ InitBookingVars /\ InitAuthVars /\ InitRateVars /\ InitLogVars
    /\ InitPayVars

NextVerify ==
    \/ \E r \in VerifyReqs, u \in Verifiers, t \in 1..2 : VerifyTicket(r, u, t)
    \/ \E r \in VerifyReqs, u \in Verifiers, q \in QrInputs, m \in {"qr", "manual"} :
          ScanTicket(r, u, q, m)
    \/ \E r \in VerifyReqs, u \in Verifiers, n \in {NthTicketNumber(1), NthTicketNumber(2)} :
          VerifyByTicketNumber(r, u, n)
    \/ \E r \in VerifyReqs, u \in Verifiers, l \in BulkInputs : BulkVerifyTickets(r, u, l)
    \/ \E r \in VerifyReqs : BulkNext(r)
    \/ \E r \in VerifyReqs : MarkAsUsed(r)
    \/ \E r \in VerifyReqs : VerifyRespond(r)
    \/ \E t \in ClockPoints : AdvanceClock(t)

SpecVerify == InitVerify /\ [][NextVerify]_vars

\* the /scan route and its rate limiter
InitRate ==
    /\ InitRateVars
    /\ InitBookingVars /\ InitTicketVars /\ InitVerifyVars /\ InitAuthVars /\ InitLogVars
    /\ InitPayVars

NextRate ==
    \/ \E q \in Requesters : QrScanRoute(q[1], q[2])
    \/ \E t \in RlClockPoints : RlTick(t)

SpecRate == InitRate /\ [][NextRate]_vars

\* verification logs
InitLog ==
    /\ InitLogVars
    /\ InitBookingVars /\ InitTicketVars /\ InitVerifyVars /\ InitAuthVars /\ InitRateVars
    /\ InitPayVars

NextLog ==
    \/ \E res \in LogResults, h \in LogHours, req \in BOOLEAN, loc \in BOOLEAN :
          NewVerificationLog(res, h, req, loc)
    \/ Save
    \/ UpdateRateLimit
    \/ \E reason \in SuspiciousReasons : AddSuspiciousFlag(reason)
    \/ \E t \in LogClockPoints : LogTick(t)

SpecLog == InitLog /\ [][NextLog]_vars

\* authentication
InitAuth ==
    /\ InitAuthVars
    /\ InitBookingVars /\ InitTicketVars /\ InitVerifyVars /\ InitRateVars /\ InitLogVars
    /\ InitPayVars

NextAuth ==
    \/ \E e \in Emails \cup {NoEmail}, p \in Passwords \cup {NoString} : Register(e, p)
    \/ \E e \in Emails \cup {NoEmail}, p \in Passwords \cup {NoString} : Login(e, p)
    \/ AuthRespond

SpecAuth == InitAuth /\ [][NextAuth]_vars


\* payments, refunds and cancellations in the second backend, after two
\* users have each booked one seat of the published event
PayUsers == {"u1", "u2"}
TicketOwner(i) == IF i = 1 THEN "u1" ELSE "u2"

InitPay ==
    /\ now = 0
    /\ tickets = [i \in 1..2 |->
          NewTicket(i - 1, "e1", TicketOwner(i), MinQuantity, MinQuantity * EventPrice,
                    EventDoc("e1").date)]
    /\ events = [e \in EventIds |->
          IF e = "e1"
          THEN [EventDoc(e) EXCEPT !.availableTickets = @ - 2 * MinQuantity]
          ELSE EventDoc(e)]
    /\ evCommitTs = [e \in EventIds |-> 0]
    /\ evWriter = [e \in EventIds |-> 0]
    /\ btReq = [r \in TicketReqs |-> BtIdle]
    /\ payments = <<>>
    /\ payOps = [r \in PayOpSlots |-> PayOpIdle]
    /\ tkWriter = [t \in 1..2 |-> 0]
    /\ InitBookingVars /\ InitVerifyVars /\ InitAuthVars /\ InitRateVars /\ InitLogVars

NextPay ==
    \/ \E u \in PayUsers, t \in PayTicketIds, ok \in BOOLEAN : CreatePaymentIntent(u, t, ok)
    \/ \E r \in PayOpSlots, u \in PayUsers, p \in PaymentIds : ProcessPayment_FindById(r, u, p)
    \/ \E r \in PayOpSlots, ok \in BOOLEAN : ProcessPayment_Gateway(r, ok)
    \/ \E r \in PayOpSlots : ProcessPayment_Ticket(r)
    \/ \E r \in PayOpSlots, u \in RefundCallers, p \in PaymentIds, a \in RefundAmounts :
          ProcessRefund_FindById(r, u, p, a)
    \/ \E r \in PayOpSlots : ProcessRefund_Payment(r)
    \/ \E r \in PayOpSlots : ProcessRefund_TicketAndEvent(r)
    \/ \E r \in PayOpSlots, u \in CancelCallers, t \in PayTicketIds : CancelTicket_Write(r, u, t)
    \/ \E r \in PayOpSlots : PayOp_Commit(r)
    \/ \E r \in PayOpSlots : PayOp_Respond(r)

SpecPay == InitPay /\ [][NextPay]_vars

----------------------------------------------------------------------------
(* Claims about the first backend *)

\* a createBooking step of request r that answers "Not enough tickets available"
CbRejects(r) ==
    /\ cbReq[r].pc = "idle"
    /\ cbReq'[r].pc = "done"
    /\ cbReq'[r].message = "Not enough tickets available"

\* a createBooking step of request r with valid input that asks for more than is left
CbAsksTooMuch(r) ==
    /\ cbReq[r].pc = "idle"
    /\ cbReq'[r].pc # "idle"
    /\ cbReq'[r].quantity >= Unit
    /\ cbReq'[r].eventId \in BkEventIds
    /\ cbReq'[r].quantity > bkEvents[cbReq'[r].eventId].availableTickets

\* C1: for any interleaving of concurrent createBooking requests on one event,
\* availableTickets never becomes negative and the quantities of the bookings
\* created never add up to more than the tickets the event had; a request that
\* asks for more than is still available is answered 400 "Not enough tickets
\* available", creates no booking and leaves availableTickets unchanged.
C1_NoOversell ==
    /\ [](\A e \in BkEventIds :
            /\ bkEvents[e].availableTickets >= 0
            /\ SumQuantity(bookings, Len(bookings)) <= bkEvents[e].totalTickets
            /\ \A r \in BookingReqs :
                 cbReq[r].message = "Not enough tickets available" =>
                    /\ cbReq[r].status = 400
                    /\ \A i \in 1..Len(bookings) : bookings[i].req # r)
    /\ [][\A r \in BookingReqs :
            /\ CbAsksTooMuch(r) => CbRejects(r)
            /\ CbRejects(r) => bkEvents' = bkEvents /\ bookings' = bookings]_vars

\* C1 witness: one request was refused for lack of tickets after the bookings
\* of the others used up the event
C1_Witness ==
    /\ bkEvents["e1"].availableTickets = 0
    /\ Len(bookings) >= 1
    /\ \E r \in BookingReqs :
         /\ cbReq[r].pc = "done"
         /\ cbReq[r].eventId = "e1"
         /\ cbReq[r].message = "Not enough tickets available"

\* a step that serves a mock payment request
PayServed == payReq.pc = "idle" /\ payReq'.pc = "done"

\* C8: createIntent and confirmPayment act only for the booking's owner: any
\* other user gets 403 and the booking is unchanged, a missing booking gets 404,
\* and a successful confirmPayment changes the booking's status to paid and
\* nothing else.
C8_OwnerOnly ==
    [][PayServed =>
        LET b == payReq'.bookingId
            u == payReq'.user
        IN  IF b \notin 1..Len(bookings)
            THEN payReq'.status = 404 /\ bookings' = bookings
            ELSE IF bookings[b].userId # u
            THEN payReq'.status = 403 /\ bookings' = bookings
            ELSE /\ payReq'.status = 200
                 /\ bookings' = IF payReq'.op = "confirmPayment"
                                THEN [bookings EXCEPT ![b].status = "paid"]
                                ELSE bookings]_vars

\* C8 witness: a confirmPayment by a user who does not own the booking was
\* refused, after an owner's confirmPayment marked a booking paid
C8_Witness ==
    /\ payReq.pc = "done"
    /\ payReq.op = "confirmPayment"
    /\ payReq.status = 403
    /\ \E i \in 1..Len(bookings) : bookings[i].status = "paid"
    /\ bookings[payReq.bookingId].status = "pending"

----------------------------------------------------------------------------
(* Claims about ticket booking in the second backend *)

RECURSIVE HeldQuantity(_, _, _, _)
\* the total quantity of the pending or confirmed tickets of a user for an event
HeldQuantity(docs, i, eventId, userId) ==
    IF i = 0 THEN 0
    ELSE (IF /\ docs[i].eventId = eventId
             /\ docs[i].userId = userId
             /\ docs[i].status \in {"pending", "confirmed"}
          THEN docs[i].quantity ELSE 0) + HeldQuantity(docs, i - 1, eventId, userId)

\* C2: for any interleaving of concurrent bookTickets transactions on one event,
\* availableTickets never becomes negative and the total quantity of the tickets
\* created never exceeds the tickets that were available: two requests that read
\* the same availability and together ask for more than it do not both commit.
C2_NoOversell ==
    /\ \A e \in EventIds : events[e].availableTickets >= 0
    /\ SumQuantity(tickets, Len(tickets)) <= EventTotalTickets
    /\ \A r1, r2 \in TicketReqs :
         /\ r1 # r2
         /\ btReq[r1].status = 201
         /\ btReq[r2].status = 201
         /\ btReq[r1].eventId = btReq[r2].eventId
         => btReq[r1].snapTs # btReq[r2].snapTs

\* C2 witness: two requests read the same availability and together asked for
\* more than it; one committed and the other was aborted by the write conflict
C2_Witness ==
    \E r1, r2 \in TicketReqs :
        /\ btReq[r1].status = 201
        /\ btReq[r2].status = 400
        /\ btReq[r2].message = "Write conflict"
        /\ btReq[r1].snapTs = btReq[r2].snapTs
        /\ btReq[r1].quantity + btReq[r2].quantity
              > events["e1"].availableTickets + btReq[r1].quantity
        /\ Len(tickets) >= 1

\* C9: the total quantity of one user's pending or confirmed tickets for one
\* event never exceeds that event's maxTicketsPerUser.
C9_PerUserLimit ==
    \A e \in EventIds, u \in UserIds :
        HeldQuantity(tickets, Len(tickets), e, u) <= events[e].maxTicketsPerUser

----------------------------------------------------------------------------
(* Claims about authentication *)

\* a step that serves a login request with a password
LoginServed ==
    /\ authReq.pc = "idle"
    /\ authReq'.pc = "done"
    /\ authReq'.op = "login"
    /\ authReq'.password # NoString

\* C3: after register succeeded for an email with password p, a login with that
\* email and p succeeds and returns a token for that user, and a login with that
\* email and any other password is answered 401 "Invalid credentials".
C3_LoginAfterRegister ==
    [][LoginServed =>
        \A u \in users :
            u.email = authReq'.email =>
                IF authReq'.password = u.registeredWith
                THEN authReq'.status = 200 /\ authReq'.token.id = u.id
                ELSE /\ authReq'.status = 401
                     /\ authReq'.message = "Invalid credentials"]_vars

\* the hours at which the claimed entry window of an event opens and closes
WindowOpens(event) == event.date + event.startTime - TwoHours
WindowCloses(event) == event.date + event.endTime + TwoHours

InEntryWindow(event, t) ==
    /\ t \div HoursPerDay = event.date \div HoursPerDay
    /\ t >= WindowOpens(event)
    /\ t <= WindowCloses(event)

DoorHandlers == {"scanTicket", "verifyByTicketNumber", "bulkVerifyTickets"}

\* C4: scanTicket with verificationMethod "qr" lets a ticket in (canEnter =
\* true, the ticket about to be marked used) only when the signature carried
\* in the QR payload equals the signature generated for that ticket; a
\* different or an absent signature never gives canEnter = true.
C4_SignatureRequired ==
    \A r \in VerifyReqs :
        (vReq[r].handler = "scanTicket" /\ vReq[r].qrData.json /\ vReq[r].canEnter)
            => vReq[r].qrData.signature
                 = GenerateQRCode(tickets[vReq[r].ticket], 0).signature

\* C5: scanTicket, verifyByTicketNumber and bulkVerifyTickets admit a ticket
\* only when the current time is on the event's day, not earlier than two
\* hours before the start and not later than two hours after the end.
C5_AdmittedInWindow ==
    [][\A r \in VerifyReqs :
          (/\ vReq[r].pc # "save" /\ vReq'[r].pc = "save"
           /\ vReq'[r].handler \in DoorHandlers)
              => InEntryWindow(events[tickets[vReq'[r].ticket].eventId], now)]_vars

\* C10: a ticket is admitted at most once: no two requests on the same ticket
\* both report it valid for entry, and once the ticket is used its verifiedAt
\* and verifiedBy are never changed.
C10_AdmittedOnce ==
    /\ [](\A r1, r2 \in VerifyReqs :
            (r1 # r2 /\ vReq[r1].canEnter /\ vReq[r2].canEnter)
                => vReq[r1].ticket # vReq[r2].ticket)
    /\ [][\A t \in 1..Len(tickets) :
            tickets[t].status = "used"
                => /\ tickets'[t].verifiedAt = tickets[t].verifiedAt
                   /\ tickets'[t].verifiedBy = tickets[t].verifiedBy]_vars

\* the requesters that the limiter counts
Limited == {k \in RlKeys : RequireRole(k[2]) /\ ~ Skip(k[2])}

WeightsThatHold(doc) ==
      (IF ~ doc.isValid THEN WeightNotValid ELSE 0)
    + (IF Includes(doc.reason, <<"signature">>) THEN WeightSignature ELSE 0)
    + (IF Includes(doc.reason, <<"not", "found">>) THEN WeightNotFound ELSE 0)
    + (IF doc.hour < EarlyHour \/ doc.hour > LateHour THEN WeightOddHour ELSE 0)
    + (IF doc.attemptsInWindow > ManyAttempts THEN WeightRateLimit ELSE 0)
    + (IF doc.hasCoordinates THEN WeightLocation ELSE 0)

\* C7: the risk score stored on every saved VerificationLog is the sum of the
\* weights of the conditions that hold (location coordinates present: 5),
\* capped at 100, so it lies between 0 and 100, and the log is marked
\* suspicious whenever the score is above 70.
C7_RiskScore ==
    vlog.pc = "saved"
        => /\ vlog.riskScore = MinOf(WeightsThatHold(vlog), MaxRiskScore)
           /\ vlog.riskScore \in 0..MaxRiskScore
           /\ (vlog.riskScore > SuspiciousAbove => vlog.isSuspicious)

\* the user is the organizer of the event of ticket t or an admin
MayVerify(u, t) ==
    events[tickets[t].eventId].organizerId = u \/ RoleOf(u) = "admin"

NotAuthorizedReasons ==
    {"Not authorized to verify this ticket",
     "Not authorized to verify tickets for this event"}

\* C11: a ticket changes to status used only through a request whose user is
\* the organizer of the ticket's event or an admin; a request of any other
\* user is refused (403 or a per-ticket error), never reports canEnter and
\* leaves the tickets unchanged.
C11_OnlyOrganizerOrAdmin ==
    [][/\ \A t \in 1..Len(tickets) :
            (tickets[t].status # "used" /\ tickets'[t].status = "used")
                => \E r \in VerifyReqs :
                      /\ vReq[r].pc = "save" /\ vReq'[r].pc # "save"
                      /\ vReq[r].ticket = t
                      /\ MayVerify(vReq[r].user, t)
                      /\ tickets'[t].verifiedBy = vReq[r].user
       /\ \A r \in VerifyReqs :
            (/\ vReq'[r] # vReq[r]
             /\ vReq'[r].pc # "idle"
             /\ \A t \in 1..Len(tickets) : ~ MayVerify(vReq'[r].user, t))
                => /\ tickets' = tickets
                   /\ ~ vReq'[r].canEnter
                   /\ vReq'[r].pc \in {"done", "next"}
                   /\ vReq'[r].ticket # 0
                        => vReq'[r].reason \in NotAuthorizedReasons
                   /\ vReq'[r].handler # "bulkVerifyTickets"
                        => vReq'[r].status \in {400, 403, 404}]_vars

\* the organizer of the event has marked the ticket used, and another
\* organizer asking for the same ticket has been answered 403
C11_Witness ==
    /\ tickets[1].status = "used"
    /\ tickets[1].verifiedBy = "o1"
    /\ \E r \in VerifyReqs :
          /\ vReq[r].user = "o2" /\ vReq[r].ticket = 1
          /\ vReq[r].status = 403 /\ vReq[r].pc = "done"

CbQuiet == \A r \in BookingReqs : cbReq[r].pc \in {"idle", "done"}

\* C18: in every state reached by createBooking requests in which no request
\* is in progress, availableTickets plus the sum of the quantities of the
\* bookings of the event equals totalTickets, and every booking holds exactly
\* as many ticket codes as its quantity.
C18_SeatsAccounted ==
    CbQuiet =>
        /\ \A e \in BkEventIds :
              bkEvents[e].availableTickets + SumQuantity(bookings, Len(bookings))
                 = bkEvents[e].totalTickets
        /\ \A i \in 1..Len(bookings) :
              Len(bookings[i].ticketCodes) * Unit = bookings[i].quantity

----------------------------------------------------------------------------
\* C13: a payment leaves status pending at most once: processPayment turns
\* only a pending payment into completed or failed (so a completed payment
\* never becomes failed, nor a failed one completed), and a request that
\* finds the payment not pending is answered 400 "Payment is not pending"
\* and changes nothing.
Settled == {"completed", "failed"}

C13_SettledOnce ==
    [][/\ \A p \in 1..Len(payments) :
             (payments'[p].status # payments[p].status /\ payments'[p].status \in Settled)
                => payments[p].status = "pending"
       /\ \A r \in PayOpSlots :
             (/\ payOps[r].pc = "idle" /\ payOps'[r].op = "processPayment"
              /\ payOps'[r].payment # 0
              /\ payments[payOps'[r].payment].userId = payOps'[r].user
              /\ payments[payOps'[r].payment].status # "pending")
                => /\ payOps'[r].pc = "done" /\ payOps'[r].status = 400
                   /\ payOps'[r].message = "Payment is not pending"
                   /\ payments' = payments /\ tickets' = tickets]_vars

\* C14: processPayment updates the payment and its ticket together; in
\* particular a request that ends with "Payment processing error"
\* (transaction rolled back) has changed neither the payment's status, which
\* is pending as the request found it, nor the ticket.  (Its other two
\* outcomes, 200 and "Payment processing failed", are written by the steps
\* ProcessPayment_Gateway, ProcessPayment_Ticket and PayOp_Commit.)
C14_RolledBack ==
    [][\A r \in PayOpSlots :
          (/\ payOps[r].op = "processPayment"
           /\ payOps[r].pc # "done" /\ payOps'[r].pc = "done"
           /\ payOps'[r].message = "Payment processing error")
             => /\ payments'[payOps[r].payment].status = "pending"
                /\ tickets' = tickets]_vars

\* C15: each ticket has at most one payment in status completed.
C15_OneCompletedPayment ==
    \A p1, p2 \in 1..Len(payments) :
        (/\ payments[p1].ticketId = payments[p2].ticketId
         /\ payments[p1].status = "completed"
         /\ payments[p2].status = "completed") => p1 = p2

\* C16: a payment is refunded at most once and never for more than was paid:
\* when a processRefund request succeeds, its amount is not above the
\* payment's amount, no other request has succeeded in refunding the same
\* payment, and a full refund returns the ticket's quantity to
\* availableTickets of the event, which no earlier refund has done.
RefundSucceeded(r, p) ==
    /\ payOps[r].op = "processRefund" /\ payOps[r].payment = p
    /\ payOps[r].pc = "done" /\ payOps[r].status = 200

C16_RefundedOnce ==
    [][\A r \in PayOpSlots :
          (/\ payOps[r].op = "processRefund"
           /\ payOps[r].pc = "commit" /\ payOps'[r].pc = "done")
             => LET p == payOps[r].payment
                    t == payOps[r].ticket
                    e == payments[p].eventId
                IN  /\ payOps'[r].status = 200
                    /\ payOps[r].amount <= payments[p].amount
                    /\ \A r2 \in PayOpSlots \ {r} : ~RefundSucceeded(r2, p)
                    /\ payOps[r].amount = payments[p].amount
                          => /\ tickets[t].status # "refunded"
                             /\ events'[e].availableTickets =
                                   events[e].availableTickets + tickets[t].quantity]_vars

RECURSIVE SeatsHeld(_, _, _)
\* the total quantity of the tickets of an event that still hold their seats
SeatsHeld(docs, i, eventId) ==
    IF i = 0 THEN 0
    ELSE (IF docs[i].eventId = eventId /\ docs[i].status \in {"pending", "confirmed", "used"}
          THEN docs[i].quantity ELSE 0) + SeatsHeld(docs, i - 1, eventId)

\* C17: the quantity of a ticket is returned to availableTickets of its event
\* at most once: availableTickets plus the total quantity of the event's
\* tickets in status pending, confirmed or used never exceeds totalTickets.
C17_SeatsReturnedOnce ==
    \A e \in EventIds :
        events[e].availableTickets + SeatsHeld(tickets, Len(tickets), e)
            <= events[e].totalTickets

====
